---- MODULE Spec2Model ----
(***************************************************************************)
(* Referee assignment system: the in-memory repository (Models/database.py) *)
(* and the four services built on it (Services/*.py).                       *)
(*                                                                          *)
(* Strings are sequences of one-character strings, so that str.strip() and  *)
(* str.lower() are computed.  A table (a Python dict keyed by id) is a      *)
(* function from the stored ids to records.                                 *)
(***************************************************************************)
EXTENDS Integers, Sequences, FiniteSets, TLC

\* ------------------------------------------------------------------ bounds
\* callers register referees only while _referee_counter <= MaxRefereeId
MaxRefereeId == 3
\* callers schedule matches only while _match_counter <= MaxMatchId
MaxMatchId == 2
\* callers found leagues only while _league_counter <= MaxLeagueId
MaxLeagueId == 2
\* web requests insert assignment rows only while the row ids stay at or
\* below MaxAssignmentId
MaxAssignmentId == 12

\* ----------------------------------------------------------------- strings
\* str.lower() on one character of the model's alphabet
LowerChar(c) ==
  CASE c = "A" -> "a"
    [] c = "B" -> "b"
    [] OTHER -> c

\* str.lower()
Lower(s) == [i \in 1..Len(s) |-> LowerChar(s[i])]

RECURSIVE LStrip(_)
\* str.lstrip(): drop leading blanks
LStrip(s) == IF s # <<>> /\ Head(s) = " " THEN LStrip(Tail(s)) ELSE s

RECURSIVE RStrip(_)
\* str.rstrip(): drop trailing blanks
RStrip(s) ==
  IF s # <<>> /\ s[Len(s)] = " " THEN RStrip(SubSeq(s, 1, Len(s) - 1)) ELSE s

\* str.strip()
Strip(s) == RStrip(LStrip(s))

\* ------------------------------------------------------------------- dates
\* the date strings callers pass; the repository stores them as given
DateInputs == {"2030-01-01", "2030-01-02", "2030-01-01T10:00", "01/01/2030"}

\* datetime.fromisoformat(date) does not raise: it accepts a calendar date
\* and also a calendar date followed by a time of day
IsoParses(d) == d \in {"2030-01-01", "2030-01-02", "2030-01-01T10:00"}

\* ------------------------------------------------------------------- state
VARIABLES
  referees,            \* Database.referees: id -> Referee
  leagues,             \* Database.leagues: id -> League
  teams,               \* Database.teams: id -> Team
  matches,             \* Database.matches: id -> Match
  assignments,         \* Database.assignments: id -> RefereeAssignment
  referee_counter,     \* Database._referee_counter
  league_counter,      \* Database._league_counter
  team_counter,        \* Database._team_counter
  match_counter,       \* Database._match_counter
  assignment_counter,  \* Database._assignment_counter
  last,                \* outcome of the last service call: [op, err, who]
  thr                  \* per thread: the assign call it is executing

tables == <<referees, leagues, teams, matches, assignments>>
counters == <<referee_counter, league_counter, team_counter, match_counter,
              assignment_counter>>
db == <<tables, counters>>
vars == <<db, last, thr>>

\* the empty function (an empty dict)
EmptyTable == [i \in {} |-> 0]

\* mutant: the entity is stored under the lowest id that is free, so the id
\* of a deleted entity is used again
PutLowestFree(table, key, value) ==
  LET k == CHOOSE n \in 1..key :
             n \notin DOMAIN table /\ \A j \in 1..(n - 1) : j \in DOMAIN table
  IN [i \in DOMAIN table \cup {k} |-> IF i = k THEN value ELSE table[i]]

\* dict[key] = value
Put(table, key, value) ==
  [i \in DOMAIN table \cup {key} |-> IF i = key THEN value ELSE table[i]]

\* del dict[key] for every key in keys
Drop(table, keys) == [i \in DOMAIN table \ keys |-> table[i]]

\* what a service call reports: "ok" or the error it raised
Outcome(op, err) == [op |-> op, err |-> err, who |-> 0]

\* the threads that may run assign_referees_to_match at the same time
Threads == {"t1", "t2"}

\* a thread that is not inside a call
Idle ==
  [pc |-> "idle", match_id |-> 0, referee_id |-> 0, assistant1_id |-> 0,
   assistant2_id |-> 0, ids |-> <<>>, added |-> 0, err |-> "none"]

\* Database.__init__
Init ==
  /\ referees = EmptyTable
  /\ leagues = EmptyTable
  /\ teams = EmptyTable
  /\ matches = EmptyTable
  /\ assignments = EmptyTable
  /\ referee_counter = 1
  /\ league_counter = 1
  /\ team_counter = 1
  /\ match_counter = 1
  /\ assignment_counter = 1
  /\ last = Outcome("init", "ok")
  /\ thr = [t \in Threads |-> Idle]

\* ---------------------------------------------------------------- referees
\* Database.get_referee_by_email: some referee stores exactly this string
get_referee_by_email(email) ==
  \E i \in DOMAIN referees : referees[i].email = email

\* mutant: the constructor of Referee tests the category only
RefereePostInitCategoryOnly(category, role) ==
  IF category \notin {1, 2} THEN "InvalidCategory" ELSE "ok"

\* Referee.__post_init__: the error it raises, or "ok"
RefereePostInit(category, role) ==
  IF category \notin {1, 2} THEN "InvalidCategory"
  ELSE IF role \notin {"Referee", "Assistant Referee"} THEN "InvalidRole"
  ELSE "ok"

\* the error RefereeService.create_referee raises before it draws an id
CreateRefereeCheck(first_name, last_name, email) ==
  IF get_referee_by_email(email) THEN "DuplicateEmail"
  ELSE IF Strip(first_name) = <<>> THEN "FirstNameRequired"
  ELSE IF Strip(last_name) = <<>> THEN "LastNameRequired"
  ELSE IF Strip(email) = <<>> THEN "EmailRequired"
  ELSE "ok"

\* RefereeService.create_referee
CreateReferee(first_name, last_name, email, category, role) ==
  LET pre == CreateRefereeCheck(first_name, last_name, email)
      post == RefereePostInit(category, role)
  IN
  IF pre # "ok"
  THEN /\ last' = Outcome("create_referee", pre)
       /\ UNCHANGED db
  ELSE \* get_next_referee_id() runs before the constructor validates
       /\ referee_counter' = referee_counter + 1
       /\ IF post # "ok"
          THEN /\ last' = Outcome("create_referee", post)
               /\ UNCHANGED referees
          ELSE /\ referees' = Put(referees, referee_counter,
                      [first_name |-> Strip(first_name),
                       last_name |-> Strip(last_name),
                       email |-> Lower(Strip(email)),
                       category |-> category,
                       role |-> role])
               /\ last' = Outcome("create_referee", "ok")
       /\ UNCHANGED <<leagues, teams, matches, assignments, league_counter,
                      team_counter, match_counter, assignment_counter>>

\* mutant: the cascade of delete_referee removes no row
delete_assignments_by_referee_none(referee_id) == assignments

\* Database.delete_assignments_by_referee
delete_assignments_by_referee(referee_id) ==
  Drop(assignments,
       {a \in DOMAIN assignments : assignments[a].referee_id = referee_id})

\* Database.delete_referee: removes the referee if it is stored, raises
\* nothing and leaves the assignments alone
delete_referee(referee_id) ==
  /\ referees' = Drop(referees, {referee_id})
  /\ last' = Outcome("db.delete_referee", "ok")
  /\ UNCHANGED <<leagues, teams, matches, assignments, counters>>

\* mutant: delete_referee of the service does not look the referee up first
DeleteRefereeUnchecked(referee_id) ==
  /\ assignments' = delete_assignments_by_referee(referee_id)
  /\ referees' = Drop(referees, {referee_id})
  /\ last' = Outcome("delete_referee", "ok")
  /\ UNCHANGED <<leagues, teams, matches, counters>>

\* RefereeService.delete_referee
DeleteReferee(referee_id) ==
  IF referee_id \notin DOMAIN referees
  THEN /\ last' = Outcome("delete_referee", "RefereeNotFound")
       /\ UNCHANGED db
  ELSE /\ assignments' = delete_assignments_by_referee(referee_id)
       /\ referees' = Drop(referees, {referee_id})
       /\ last' = Outcome("delete_referee", "ok")
       /\ UNCHANGED <<leagues, teams, matches, counters>>

\* ------------------------------------------------------- leagues and teams
\* Database.get_league_by_name: some league stores exactly this string
get_league_by_name(name) ==
  \E i \in DOMAIN leagues : leagues[i].name = name

\* Database.get_teams_by_league
get_teams_by_league(league_id) ==
  {t \in DOMAIN teams : teams[t].league_id = league_id}

\* Database.get_team_by_name_and_league
get_team_by_name_and_league(name, league_id) ==
  \E t \in DOMAIN teams :
    teams[t].name = name /\ teams[t].league_id = league_id

\* the loop of create_league_with_teams over team_names: the first name that
\* is blank, or that equals (stripped) an earlier stripped name, raises
TeamNamesCheck(team_names) ==
  LET bad(i) ==
        \/ Strip(team_names[i]) = <<>>
        \/ \E j \in 1..(i - 1) : Strip(team_names[j]) = Strip(team_names[i])
      Bad == {i \in 1..Len(team_names) : bad(i)}
      first == CHOOSE i \in Bad : \A j \in Bad : i <= j
  IN IF Bad = {} THEN "ok"
     ELSE IF Strip(team_names[first]) = <<>> THEN "EmptyTeamName"
     ELSE "DuplicateTeamName"

\* mutant: the team count test lets a list of seven names pass
CreateLeagueCheckUpToSeven(name, team_names) ==
  IF get_league_by_name(name) THEN "DuplicateLeagueName"
  ELSE IF ~(4 <= Len(team_names) /\ Len(team_names) <= 7)
  THEN "InvalidTeamCount"
  ELSE TeamNamesCheck(team_names)

\* the error LeagueService.create_league_with_teams raises, or "ok"
CreateLeagueCheck(name, team_names) ==
  IF get_league_by_name(name) THEN "DuplicateLeagueName"
  ELSE IF ~(4 <= Len(team_names) /\ Len(team_names) <= 6)
  THEN "InvalidTeamCount"
  ELSE TeamNamesCheck(team_names)

\* mutant: the teams are created in the reverse of the input order
CreateLeagueWithTeamsReversed(name, team_names) ==
  LET err == CreateLeagueCheck(name, team_names)
      n == Len(team_names)
  IN
  IF err # "ok"
  THEN /\ last' = Outcome("create_league_with_teams", err)
       /\ UNCHANGED db
  ELSE /\ leagues' = Put(leagues, league_counter,
                         [name |-> Strip(name), team_count |-> n])
       /\ league_counter' = league_counter + 1
       /\ teams' = [t \in DOMAIN teams \cup
                          (team_counter..(team_counter + n - 1)) |->
                      IF t \in DOMAIN teams /\ t < team_counter
                      THEN teams[t]
                      ELSE [name |-> Strip(team_names[n - (t - team_counter)]),
                            league_id |-> league_counter]]
       /\ team_counter' = team_counter + n
       /\ last' = Outcome("create_league_with_teams", "ok")
       /\ UNCHANGED <<referees, matches, assignments, referee_counter,
                      match_counter, assignment_counter>>

\* LeagueService.create_league_with_teams
CreateLeagueWithTeams(name, team_names) ==
  LET err == CreateLeagueCheck(name, team_names)
      n == Len(team_names)
  IN
  IF err # "ok"
  THEN /\ last' = Outcome("create_league_with_teams", err)
       /\ UNCHANGED db
  ELSE /\ leagues' = Put(leagues, league_counter,
                         [name |-> Strip(name), team_count |-> n])
       /\ league_counter' = league_counter + 1
       /\ teams' = [t \in DOMAIN teams \cup
                          (team_counter..(team_counter + n - 1)) |->
                      IF t \in DOMAIN teams /\ t < team_counter
                      THEN teams[t]
                      ELSE [name |-> Strip(team_names[t - team_counter + 1]),
                            league_id |-> league_counter]]
       /\ team_counter' = team_counter + n
       /\ last' = Outcome("create_league_with_teams", "ok")
       /\ UNCHANGED <<referees, matches, assignments, referee_counter,
                      match_counter, assignment_counter>>

\* mutant: add_team_to_league does not test whether the league is full
AddTeamCheckNeverFull(league_id, team_name) ==
  IF league_id \notin DOMAIN leagues THEN "LeagueNotFound"
  ELSE IF Strip(team_name) = <<>> THEN "EmptyTeamName"
  ELSE IF get_team_by_name_and_league(Strip(team_name), league_id)
  THEN "DuplicateTeamName"
  ELSE "ok"

\* add_team_to_league if the name were validated before the league's size
AddTeamCheckNameFirst(league_id, team_name) ==
  IF league_id \notin DOMAIN leagues THEN "LeagueNotFound"
  ELSE IF Strip(team_name) = <<>> THEN "EmptyTeamName"
  ELSE IF get_team_by_name_and_league(Strip(team_name), league_id)
  THEN "DuplicateTeamName"
  ELSE IF Cardinality(get_teams_by_league(league_id))
            >= leagues[league_id].team_count
  THEN "LeagueFull"
  ELSE "ok"

\* the error LeagueService.add_team_to_league raises, or "ok"
AddTeamCheck(league_id, team_name) ==
  IF league_id \notin DOMAIN leagues THEN "LeagueNotFound"
  ELSE IF Cardinality(get_teams_by_league(league_id))
            >= leagues[league_id].team_count
  THEN "LeagueFull"
  ELSE IF Strip(team_name) = <<>> THEN "EmptyTeamName"
  ELSE IF get_team_by_name_and_league(Strip(team_name), league_id)
  THEN "DuplicateTeamName"
  ELSE "ok"

\* LeagueService.add_team_to_league
AddTeamToLeague(league_id, team_name) ==
  LET err == AddTeamCheck(league_id, team_name)
  IN
  IF err # "ok"
  THEN /\ last' = Outcome("add_team_to_league", err)
       /\ UNCHANGED db
  ELSE /\ teams' = Put(teams, team_counter,
                       [name |-> Strip(team_name), league_id |-> league_id])
       /\ team_counter' = team_counter + 1
       /\ last' = Outcome("add_team_to_league", "ok")
       /\ UNCHANGED <<referees, leagues, matches, assignments,
                      referee_counter, league_counter, match_counter,
                      assignment_counter>>

\* Database.delete_team: removes the team if it is stored, raises nothing
DeleteTeam(team_id) ==
  /\ teams' = Drop(teams, {team_id})
  /\ last' = Outcome("delete_team", "ok")
  /\ UNCHANGED <<referees, leagues, matches, assignments, counters>>

\* ----------------------------------------------------------------- matches
\* mutant: the lookup finds a fixture only with the teams in the same order
get_matches_by_teams_in_order_and_date(team1_id, team2_id, match_date) ==
  {m \in DOMAIN matches :
     /\ matches[m].date = match_date
     /\ matches[m].team1_id = team1_id /\ matches[m].team2_id = team2_id}

\* Database.get_matches_by_teams_and_date
get_matches_by_teams_and_date(team1_id, team2_id, match_date) ==
  {m \in DOMAIN matches :
     /\ matches[m].date = match_date
     /\ \/ matches[m].team1_id = team1_id /\ matches[m].team2_id = team2_id
        \/ matches[m].team1_id = team2_id /\ matches[m].team2_id = team1_id}

\* the error MatchService.create_match raises before it draws an id
CreateMatchCheck(team1_id, team2_id, date, league_id) ==
  IF team1_id \notin DOMAIN teams \/ team2_id \notin DOMAIN teams
  THEN "TeamNotFound"
  ELSE IF \/ teams[team1_id].league_id # league_id
          \/ teams[team2_id].league_id # league_id
  THEN "LeagueMismatch"
  ELSE IF ~IsoParses(date) THEN "InvalidDate"
  ELSE IF get_matches_by_teams_and_date(team1_id, team2_id, date) # {}
  THEN "DuplicateFixture"
  ELSE "ok"

\* mutant: the constructor of Match accepts a team playing against itself
MatchPostInitAny(team1_id, team2_id) == "ok"

\* Match.__post_init__: the error it raises, or "ok"
MatchPostInit(team1_id, team2_id) ==
  IF team1_id = team2_id THEN "SameTeam" ELSE "ok"

\* MatchService.create_match
CreateMatch(team1_id, team2_id, date, league_id) ==
  LET pre == CreateMatchCheck(team1_id, team2_id, date, league_id)
      post == MatchPostInit(team1_id, team2_id)
  IN
  IF pre # "ok"
  THEN /\ last' = Outcome("create_match", pre)
       /\ UNCHANGED db
  ELSE \* get_next_match_id() runs before the constructor validates
       /\ match_counter' = match_counter + 1
       /\ IF post # "ok"
          THEN /\ last' = Outcome("create_match", post)
               /\ UNCHANGED matches
          ELSE /\ matches' = Put(matches, match_counter,
                      [team1_id |-> team1_id, team2_id |-> team2_id,
                       date |-> date, league_id |-> league_id])
               /\ last' = Outcome("create_match", "ok")
       /\ UNCHANGED <<referees, leagues, teams, assignments,
                      referee_counter, league_counter, team_counter,
                      assignment_counter>>

\* mutant: the cascade of delete_match removes no row
delete_assignments_by_match_none(match_id) == assignments

\* Database.delete_assignments_by_match
delete_assignments_by_match(match_id) ==
  Drop(assignments,
       {a \in DOMAIN assignments : assignments[a].match_id = match_id})

\* Database.delete_match: removes the match if it is stored, raises nothing
\* and leaves the assignments alone
delete_match(match_id) ==
  /\ matches' = Drop(matches, {match_id})
  /\ last' = Outcome("db.delete_match", "ok")
  /\ UNCHANGED <<referees, leagues, teams, assignments, counters>>

\* mutant: delete_match reports success and deletes nothing
DeleteMatchNothing(match_id) ==
  /\ last' = Outcome("delete_match",
                     IF match_id \in DOMAIN matches THEN "ok"
                     ELSE "MatchNotFound")
  /\ UNCHANGED db

\* MatchService.delete_match
DeleteMatch(match_id) ==
  IF match_id \notin DOMAIN matches
  THEN /\ last' = Outcome("delete_match", "MatchNotFound")
       /\ UNCHANGED db
  ELSE /\ assignments' = delete_assignments_by_match(match_id)
       /\ matches' = Drop(matches, {match_id})
       /\ last' = Outcome("delete_match", "ok")
       /\ UNCHANGED <<referees, leagues, teams, counters>>

\* ------------------------------------------------------------- assignments
\* Database.get_assignments_by_match
get_assignments_by_match(match_id) ==
  {a \in DOMAIN assignments : assignments[a].match_id = match_id}

\* mutant: the date test of the lookup is inverted
get_assignments_by_referee_other_date(referee_id, match_date) ==
  {a \in DOMAIN assignments :
     /\ assignments[a].referee_id = referee_id
     /\ assignments[a].match_id \in DOMAIN matches
     /\ matches[assignments[a].match_id].date # match_date}

\* Database.get_assignments_by_referee_and_date
get_assignments_by_referee_and_date(referee_id, match_date) ==
  {a \in DOMAIN assignments :
     /\ assignments[a].referee_id = referee_id
     /\ assignments[a].match_id \in DOMAIN matches
     /\ matches[assignments[a].match_id].date = match_date}

\* mutant: the availability loop never finds a booked referee
BookedNever(referee_ids, match_date) == {}

\* the referees of referee_ids that the availability loop finds booked
Booked(referee_ids, match_date) ==
  {r \in referee_ids :
     get_assignments_by_referee_and_date(r, match_date) # {}}

\* the loop "for ref_id in referee_ids" visits the set {referee_id,
\* assistant1_id, assistant2_id} in CPython's order for a set of small
\* integers, which is ascending for the ids of this model (all below 8)
FirstBooked(referee_ids, match_date) ==
  LET B == Booked(referee_ids, match_date)
  IN CHOOSE r \in B : \A q \in B : r <= q

\* mutant: "match already has assignments" is tested before the availability
\* loop
AssignCheckSwapped(match_id, referee_id, assistant1_id, assistant2_id) ==
  LET referee_ids == {referee_id, assistant1_id, assistant2_id}
  IN
  IF match_id \notin DOMAIN matches THEN "MatchNotFound"
  ELSE IF ~(referee_ids \subseteq DOMAIN referees) THEN "RefereeNotFound"
  ELSE IF referees[referee_id].role # "Referee" THEN "MainRoleMismatch"
  ELSE IF \/ referees[assistant1_id].role # "Assistant Referee"
          \/ referees[assistant2_id].role # "Assistant Referee"
  THEN "AssistantRoleMismatch"
  ELSE IF Cardinality(referee_ids) # 3 THEN "DuplicateReferee"
  ELSE IF get_assignments_by_match(match_id) # {} THEN "AlreadyAssigned"
  ELSE IF Booked(referee_ids, matches[match_id].date) # {}
  THEN "DoubleBooked"
  ELSE "ok"

\* mutant: a match counts as assigned only when it holds three rows
AssignCheckFullSetOnly(match_id, referee_id, assistant1_id, assistant2_id) ==
  LET referee_ids == {referee_id, assistant1_id, assistant2_id}
  IN
  IF match_id \notin DOMAIN matches THEN "MatchNotFound"
  ELSE IF ~(referee_ids \subseteq DOMAIN referees) THEN "RefereeNotFound"
  ELSE IF referees[referee_id].role # "Referee" THEN "MainRoleMismatch"
  ELSE IF \/ referees[assistant1_id].role # "Assistant Referee"
          \/ referees[assistant2_id].role # "Assistant Referee"
  THEN "AssistantRoleMismatch"
  ELSE IF Cardinality(referee_ids) # 3 THEN "DuplicateReferee"
  ELSE IF Booked(referee_ids, matches[match_id].date) # {}
  THEN "DoubleBooked"
  ELSE IF Cardinality(get_assignments_by_match(match_id)) = 3
  THEN "AlreadyAssigned"
  ELSE "ok"

\* mutant: the test "match already has assignments" is left out
AssignCheckNoExisting(match_id, referee_id, assistant1_id, assistant2_id) ==
  LET referee_ids == {referee_id, assistant1_id, assistant2_id}
  IN
  IF match_id \notin DOMAIN matches THEN "MatchNotFound"
  ELSE IF ~(referee_ids \subseteq DOMAIN referees) THEN "RefereeNotFound"
  ELSE IF referees[referee_id].role # "Referee" THEN "MainRoleMismatch"
  ELSE IF \/ referees[assistant1_id].role # "Assistant Referee"
          \/ referees[assistant2_id].role # "Assistant Referee"
  THEN "AssistantRoleMismatch"
  ELSE IF Cardinality(referee_ids) # 3 THEN "DuplicateReferee"
  ELSE IF Booked(referee_ids, matches[match_id].date) # {}
  THEN "DoubleBooked"
  ELSE "ok"

\* the error AssignmentService.assign_referees_to_match raises, or "ok"
AssignCheck(match_id, referee_id, assistant1_id, assistant2_id) ==
  LET referee_ids == {referee_id, assistant1_id, assistant2_id}
  IN
  IF match_id \notin DOMAIN matches THEN "MatchNotFound"
  ELSE IF ~(referee_ids \subseteq DOMAIN referees) THEN "RefereeNotFound"
  ELSE IF referees[referee_id].role # "Referee" THEN "MainRoleMismatch"
  ELSE IF \/ referees[assistant1_id].role # "Assistant Referee"
          \/ referees[assistant2_id].role # "Assistant Referee"
  THEN "AssistantRoleMismatch"
  ELSE IF Cardinality(referee_ids) # 3 THEN "DuplicateReferee"
  ELSE IF Booked(referee_ids, matches[match_id].date) # {}
  THEN "DoubleBooked"
  ELSE IF get_assignments_by_match(match_id) # {} THEN "AlreadyAssigned"
  ELSE "ok"

\* mutant: the record of the second assistant is not built
NewAssignmentsTwo(match_id, referee_id, assistant1_id, assistant2_id) ==
  LET n == assignment_counter
  IN (n :> [match_id |-> match_id, referee_id |-> referee_id,
            role |-> "Referee"])
     @@ ((n + 1) :> [match_id |-> match_id, referee_id |-> assistant1_id,
                     role |-> "Assistant Referee"])

\* mutant: the records of the two assistants are built in the other order
NewAssignmentsSwapped(match_id, referee_id, assistant1_id, assistant2_id) ==
  LET n == assignment_counter
  IN (n :> [match_id |-> match_id, referee_id |-> referee_id,
            role |-> "Referee"])
     @@ ((n + 1) :> [match_id |-> match_id, referee_id |-> assistant2_id,
                     role |-> "Assistant Referee"])
     @@ ((n + 2) :> [match_id |-> match_id, referee_id |-> assistant1_id,
                     role |-> "Assistant Referee"])

\* mutant: all three records are built with the role "Referee"
NewAssignmentsAllMain(match_id, referee_id, assistant1_id, assistant2_id) ==
  LET n == assignment_counter
  IN (n :> [match_id |-> match_id, referee_id |-> referee_id,
            role |-> "Referee"])
     @@ ((n + 1) :> [match_id |-> match_id, referee_id |-> assistant1_id,
                     role |-> "Referee"])
     @@ ((n + 2) :> [match_id |-> match_id, referee_id |-> assistant2_id,
                     role |-> "Referee"])

\* the three records assign_referees_to_match builds, keyed by their ids
NewAssignments(match_id, referee_id, assistant1_id, assistant2_id) ==
  LET n == assignment_counter
  IN (n :> [match_id |-> match_id, referee_id |-> referee_id,
            role |-> "Referee"])
     @@ ((n + 1) :> [match_id |-> match_id, referee_id |-> assistant1_id,
                     role |-> "Assistant Referee"])
     @@ ((n + 2) :> [match_id |-> match_id, referee_id |-> assistant2_id,
                     role |-> "Assistant Referee"])

\* AssignmentService.assign_referees_to_match
Assign(match_id, referee_id, assistant1_id, assistant2_id) ==
  LET err == AssignCheck(match_id, referee_id, assistant1_id, assistant2_id)
      new == NewAssignments(match_id, referee_id, assistant1_id,
                            assistant2_id)
  IN
  IF err # "ok"
  THEN /\ last' = [op |-> "assign", err |-> err,
                   who |-> IF err = "DoubleBooked"
                           THEN FirstBooked({referee_id, assistant1_id,
                                             assistant2_id},
                                            matches[match_id].date)
                           ELSE 0]
       /\ UNCHANGED db
  ELSE /\ assignments' = new @@ assignments
       /\ assignment_counter' = assignment_counter + 3
       /\ last' = Outcome("assign", "ok")
       /\ UNCHANGED <<referees, leagues, teams, matches, referee_counter,
                      league_counter, team_counter, match_counter>>

\* ----------------------------------------------------------------- lookups
\* what a lookup reports: the value it returns
Returned(op, ret) == [op |-> op, err |-> "ok", who |-> 0, ret |-> ret]

\* mutant: a lookup that takes the first assignment row out of the repository
QueryRemoving(op, ret) ==
  /\ last' = Returned(op, ret)
  /\ assignments' = Drop(assignments, {1})
  /\ UNCHANGED <<referees, leagues, teams, matches, counters>>

\* a lookup of the repository or of a service: none of them assigns to a
\* table or to a counter
Query(op, ret) ==
  /\ last' = Returned(op, ret)
  /\ UNCHANGED db

\* Database.get_*_by_id (dict.get): the entity, or None
get_by_id(table, id) == IF id \in DOMAIN table THEN {id} ELSE {}

\* Database.get_all_* (list(dict.values()))
get_all(table) == DOMAIN table

\* Database.get_matches_by_date
get_matches_by_date(match_date) ==
  {m \in DOMAIN matches : matches[m].date = match_date}

\* mutant: every stored referee counts as available
get_available_referees_all(match_date) == DOMAIN referees

\* AssignmentService.get_available_referees: the referees for which
\* get_assignments_by_referee_and_date returns no row
get_available_referees(match_date) ==
  {r \in DOMAIN referees :
     get_assignments_by_referee_and_date(r, match_date) = {}}

\* the date strings of the model in the order of Python's string comparison
DateStringsInOrder ==
  <<"01/01/2030", "2029-12-31", "2030-01-01", "2030-01-01T10:00",
    "2030-01-02", "2030-01-03">>

\* the place of a date string in that order
StringRank(d) ==
  CHOOSE i \in DOMAIN DateStringsInOrder : DateStringsInOrder[i] = d

\* list.sort(key=date) on matches listed in the order of the dict, which is
\* the order of their ids: by date string, and by id among equal dates
RECURSIVE SortByDate(_)
SortByDate(S) ==
  IF S = {} THEN <<>>
  ELSE LET first == CHOOSE x \in S : \A y \in S :
                      \/ StringRank(matches[x].date) < StringRank(matches[y].date)
                      \/ /\ matches[x].date = matches[y].date
                         /\ x <= y
       IN <<first>> \o SortByDate(S \ {first})

\* list[:limit]
SliceTo(list, limit) ==
  IF limit >= 0
  THEN SubSeq(list, 1, IF limit < Len(list) THEN limit ELSE Len(list))
  ELSE SubSeq(list, 1, Len(list) + limit)

\* mutant: the slice is taken before the list is sorted
get_upcoming_matches_unsorted(limit, today) ==
  LET upcoming == {m \in DOMAIN matches :
                     StringRank(matches[m].date) >= StringRank(today)}
      kept == {m \in upcoming : Cardinality({k \in upcoming : k < m}) < limit}
  IN SortByDate(kept)

\* MatchService.get_upcoming_matches, today being date.today().isoformat():
\* the ids of the matches of the entries it returns
get_upcoming_matches(limit, today) ==
  LET upcoming == {m \in DOMAIN matches :
                     StringRank(matches[m].date) >= StringRank(today)}
  IN SliceTo(SortByDate(upcoming), limit)

\* --------------------------------------------------- web layer (app.py)
\* the largest id of a table, 0 for an empty table
MaxKey(table) ==
  IF DOMAIN table = {} THEN 0
  ELSE CHOOSE k \in DOMAIN table : \A j \in DOMAIN table : j <= k

\* the three rows a handler adds to the session and commits; the table has
\* an integer primary key without a sequence, so each row gets one more than
\* the largest id of the rows the transaction sees
WebNewRows(rows, match_id, referee_id, assistant1_id, assistant2_id) ==
  LET n == MaxKey(rows) + 1
  IN (n :> [match_id |-> match_id, referee_id |-> referee_id,
            role |-> "Referee"])
     @@ ((n + 1) :> [match_id |-> match_id, referee_id |-> assistant1_id,
                     role |-> "Assistant Referee"])
     @@ ((n + 2) :> [match_id |-> match_id, referee_id |-> assistant2_id,
                     role |-> "Assistant Referee"])

\* the availability query of the handlers on the rows the transaction sees:
\* the referees with a row joined to a match of this date whose id is not in
\* excluded
WebBooked(rows, referee_ids, match_date, excluded) ==
  {r \in referee_ids :
     \E a \in DOMAIN rows :
       /\ rows[a].referee_id = r
       /\ rows[a].match_id \in DOMAIN matches \ excluded
       /\ matches[rows[a].match_id].date = match_date}

\* mutant: the assign handler without its availability query
WebAssignCheckNoQuery(match_id, referee_id, assistant1_id, assistant2_id) ==
  LET referee_ids == {referee_id, assistant1_id, assistant2_id}
  IN
  IF match_id \notin DOMAIN matches THEN "ServerError"
  ELSE IF ~(referee_ids \subseteq DOMAIN referees) THEN "RefereeNotFound"
  ELSE IF referees[referee_id].role # "Referee" THEN "MainRoleMismatch"
  ELSE IF \/ referees[assistant1_id].role # "Assistant Referee"
          \/ referees[assistant2_id].role # "Assistant Referee"
  THEN "AssistantRoleMismatch"
  ELSE IF Cardinality(referee_ids) # 3 THEN "DuplicateReferee"
  ELSE IF get_assignments_by_match(match_id) # {} THEN "AlreadyAssigned"
  ELSE "ok"

\* the response of the assign handler that is not a success: the 400
\* responses by their message, and "ServerError" for the 500 response of the
\* except clause, which also catches the 404 of get_or_404
WebAssignCheck(match_id, referee_id, assistant1_id, assistant2_id) ==
  LET referee_ids == {referee_id, assistant1_id, assistant2_id}
  IN
  IF match_id \notin DOMAIN matches THEN "ServerError"
  ELSE IF ~(referee_ids \subseteq DOMAIN referees) THEN "RefereeNotFound"
  ELSE IF referees[referee_id].role # "Referee" THEN "MainRoleMismatch"
  ELSE IF \/ referees[assistant1_id].role # "Assistant Referee"
          \/ referees[assistant2_id].role # "Assistant Referee"
  THEN "AssistantRoleMismatch"
  ELSE IF Cardinality(referee_ids) # 3 THEN "DuplicateReferee"
  ELSE IF get_assignments_by_match(match_id) # {} THEN "AlreadyAssigned"
  ELSE IF WebBooked(assignments, referee_ids, matches[match_id].date, {}) # {}
  THEN "DoubleBooked"
  ELSE "ok"

\* assign_referees_to_match of app.py: one request, one transaction
WebAssign(match_id, referee_id, assistant1_id, assistant2_id) ==
  LET err == WebAssignCheck(match_id, referee_id, assistant1_id,
                            assistant2_id)
  IN
  IF err # "ok"
  THEN /\ last' = Outcome("web_assign", err)
       /\ UNCHANGED db
  ELSE /\ assignments' = WebNewRows(assignments, match_id, referee_id,
                                    assistant1_id, assistant2_id)
                         @@ assignments
       /\ last' = Outcome("web_assign", "ok")
       /\ UNCHANGED <<referees, leagues, teams, matches, counters>>

\* mutant: reassign runs the checks of assign on the stored rows
ReassignCheckAsAssign(match_id, referee_id, assistant1_id, assistant2_id) ==
  WebAssignCheck(match_id, referee_id, assistant1_id, assistant2_id)

\* the response of the reassign handler that is not a success; its queries
\* run after the DELETE of the rows of the match in the same transaction
ReassignCheck(match_id, referee_id, assistant1_id, assistant2_id) ==
  LET referee_ids == {referee_id, assistant1_id, assistant2_id}
      session == delete_assignments_by_match(match_id)
  IN
  IF match_id \notin DOMAIN matches THEN "ServerError"
  ELSE IF ~(referee_ids \subseteq DOMAIN referees) THEN "RefereeNotFound"
  ELSE IF referees[referee_id].role # "Referee" THEN "MainRoleMismatch"
  ELSE IF \/ referees[assistant1_id].role # "Assistant Referee"
          \/ referees[assistant2_id].role # "Assistant Referee"
  THEN "AssistantRoleMismatch"
  ELSE IF Cardinality(referee_ids) # 3 THEN "DuplicateReferee"
  ELSE IF WebBooked(session, referee_ids, matches[match_id].date,
                    {match_id}) # {}
  THEN "DoubleBooked"
  ELSE "ok"

\* mutant: the rows the transaction saw when the request ended are stored
\* even though the handler did not commit
RequestEndCommitting(stored, seen, committed) == seen

\* the end of a request: what the transaction did is stored when the handler
\* committed; when it returned without commit or rolled back, the session is
\* discarded and the stored rows are those from before the request
RequestEnd(stored, seen, committed) == IF committed THEN seen ELSE stored

\* reassign_referees_to_match of app.py: one request, one transaction. The
\* DELETE of the rows of the match is the first statement of the transaction;
\* the 400 responses return without commit, the 500 response rolls back, and
\* only the success path adds the three rows and commits
Reassign(match_id, referee_id, assistant1_id, assistant2_id) ==
  LET err == ReassignCheck(match_id, referee_id, assistant1_id,
                           assistant2_id)
      deleted == IF match_id \in DOMAIN matches
                 THEN delete_assignments_by_match(match_id)
                 ELSE assignments
      seen == IF err = "ok"
              THEN WebNewRows(deleted, match_id, referee_id, assistant1_id,
                              assistant2_id) @@ deleted
              ELSE deleted
  IN
  /\ assignments' = RequestEnd(assignments, seen, err = "ok")
  /\ last' = Outcome("reassign", err)
  /\ UNCHANGED <<referees, leagues, teams, matches, counters>>

\* --------------------------------------------------- the callers' requests
\* the address of the k-th person who registers
EmailOf(k) ==
  CASE k = 1 -> <<"a">>
    [] k = 2 -> <<"b">>
    [] k = 3 -> <<"c">>
    [] k = 4 -> <<"d">>
    [] k = 5 -> <<"e">>
    [] k = 6 -> <<"f">>
    [] OTHER -> <<"g">>

\* the role of the k-th person who registers: one referee, two assistants,
\* one referee, two assistants, ...
RoleOf(k) == IF k % 3 = 1 THEN "Referee" ELSE "Assistant Referee"

\* the addresses of the stored referees
StoredEmails == {referees[i].email : i \in DOMAIN referees}

League4 == << <<"A">>, <<"B">>, <<"C">>, <<"D">> >>

\* (team1_id, team2_id, date, league_id) of the k-th fixture the callers
\* schedule: two fixtures on one day, then one on the next day, ...
FixtureOf(k) ==
  CASE k % 3 = 1 -> <<1, 2, "2030-01-01", 1>>
    [] k % 3 = 2 -> <<3, 4, "2030-01-01", 1>>
    [] OTHER -> <<1, 3, "2030-01-02", 1>>

\* the stored fixtures with the two teams swapped
StoredFixturesSwapped ==
  {<<matches[m].team2_id, matches[m].team1_id, matches[m].date,
     matches[m].league_id>> : m \in DOMAIN matches}

RefereeIds == 1..MaxRefereeId
MatchIds == 1..MaxMatchId

\* the teams a caller of the repository removes
TeamIdsRemoved == {1, 2}

\* (referee_id, assistant1_id, assistant2_id) of the assign requests: every
\* crew of one registered main referee and two registered assistants (the
\* same assistant twice included), and crews with a person in a position
\* that is not theirs: the main referee also as first or second assistant,
\* an assistant as main referee
Crews ==
  {c \in RefereeIds \X RefereeIds \X RefereeIds :
     /\ RoleOf(c[1]) = "Referee"
     /\ RoleOf(c[2]) = "Assistant Referee"
     /\ RoleOf(c[3]) = "Assistant Referee"}
  \cup {c \in RefereeIds \X RefereeIds \X RefereeIds :
          /\ RoleOf(c[1]) = "Referee"
          /\ c[2] = c[1] \/ c[3] = c[1]
          /\ c[2] # c[3]
          /\ "Assistant Referee" \in {RoleOf(c[2]), RoleOf(c[3])}}
  \cup {c \in RefereeIds \X RefereeIds \X RefereeIds :
          /\ RoleOf(c[1]) = "Assistant Referee"
          /\ c[2] = c[1]
          /\ RoleOf(c[3]) = "Assistant Referee"
          /\ c[3] >= c[2]}


\* ------------------------------------------------ sequential specification
\* the service calls of one caller at a time, on a fresh Database
Next ==
  \/ /\ referee_counter <= MaxRefereeId
     /\ \E e \in {EmailOf(referee_counter)} \cup StoredEmails :
          CreateReferee(<<"J">>, <<"D">>, e, 1, RoleOf(referee_counter))
     /\ UNCHANGED thr
  \/ /\ \E i \in RefereeIds : DeleteReferee(i)
     /\ UNCHANGED thr
  \/ /\ CreateLeagueWithTeams(<<"L">>, League4)
     /\ UNCHANGED thr
  \/ /\ AddTeamToLeague(1, <<"E">>)
     /\ UNCHANGED thr
  \/ /\ match_counter <= MaxMatchId
     /\ \E in \in {FixtureOf(match_counter)} \cup StoredFixturesSwapped :
          CreateMatch(in[1], in[2], in[3], in[4])
     /\ UNCHANGED thr
  \/ /\ \E m \in MatchIds : DeleteMatch(m)
     /\ UNCHANGED thr
  \/ /\ \E m \in MatchIds, c \in Crews : Assign(m, c[1], c[2], c[3])
     /\ UNCHANGED thr

Spec == Init /\ [][Next]_vars

\* ------------------------------------------------- deletion specification
\* the creating calls with the next request of the roster, assign of the
\* first crew of the roster to match 1, the two deleting calls of the services, and the
\* three delete functions of the repository called directly
NextDelete ==
  \/ /\ referee_counter <= MaxRefereeId
     /\ CreateReferee(<<"J">>, <<"D">>, EmailOf(referee_counter), 1,
                      RoleOf(referee_counter))
     /\ UNCHANGED thr
  \/ /\ CreateLeagueWithTeams(<<"L">>, League4)
     /\ UNCHANGED thr
  \/ /\ match_counter <= MaxMatchId
     /\ \E in \in {FixtureOf(match_counter)} :
          CreateMatch(in[1], in[2], in[3], in[4])
     /\ UNCHANGED thr
  \/ /\ Assign(1, 1, 2, 3)
     /\ UNCHANGED thr
  \/ /\ \E i \in RefereeIds : DeleteReferee(i)
     /\ UNCHANGED thr
  \/ /\ \E m \in MatchIds : DeleteMatch(m)
     /\ UNCHANGED thr
  \/ /\ \E i \in RefereeIds : delete_referee(i)
     /\ UNCHANGED thr
  \/ /\ \E m \in MatchIds : delete_match(m)
     /\ UNCHANGED thr
  \/ /\ \E t \in TeamIdsRemoved : DeleteTeam(t)
     /\ UNCHANGED thr

SpecDelete == Init /\ [][NextDelete]_vars

\* ------------------------------------------- referee-service specification
NameInputs == {<<"J">>, <<" ">>}
EmailInputs == {<<"a">>, <<" ", "A">>, <<"b">>, <<" ">>}
CategoryInputs == {1, 2, 3}
RoleInputs == {"Referee", "Assistant Referee", "Observer"}

\* create_referee with any of the inputs above, and delete_referee
NextReferee ==
  \/ /\ referee_counter <= MaxRefereeId
     /\ \E f \in NameInputs, l \in NameInputs, e \in EmailInputs,
           c \in CategoryInputs, r \in RoleInputs :
          CreateReferee(f, l, e, c, r)
     /\ UNCHANGED thr
  \/ /\ \E i \in RefereeIds : DeleteReferee(i)
     /\ UNCHANGED thr

SpecReferee == Init /\ [][NextReferee]_vars

\* --------------------------------------------- match-service specification
TeamIdInputs == {1, 2, 3, 9}
LeagueIdInputs == {1, 2}

\* one league of four teams, then create_match with any of the inputs above,
\* and delete_match
NextMatch ==
  \/ /\ CreateLeagueWithTeams(<<"L">>, League4)
     /\ UNCHANGED thr
  \/ /\ match_counter <= MaxMatchId
     /\ \E t1 \in TeamIdInputs, t2 \in TeamIdInputs, d \in DateInputs,
           l \in LeagueIdInputs : CreateMatch(t1, t2, d, l)
     /\ UNCHANGED thr
  \/ /\ \E m \in MatchIds : DeleteMatch(m)
     /\ UNCHANGED thr

SpecMatch == Init /\ [][NextMatch]_vars

\* ------------------------------------------------ two-league specification
\* team ids of the create_match requests: two teams of the first league, two
\* of the second, and an id that is never handed out
TwoLeagueTeamIds == {1, 2, 5, 6, 9}

\* a calendar date, and a string that is not an ISO date
TwoLeagueDates == {"2030-01-01", "01/01/2030"}

\* two leagues of four teams each, create_match with teams of either league
\* and either league id, and delete_match
NextTwoLeagues ==
  \/ /\ \E n \in {<<"L">>, <<"M">>} : CreateLeagueWithTeams(n, League4)
     /\ UNCHANGED thr
  \/ /\ match_counter <= MaxMatchId
     /\ \E t1 \in TwoLeagueTeamIds, t2 \in TwoLeagueTeamIds,
           d \in TwoLeagueDates, l \in LeagueIdInputs :
          CreateMatch(t1, t2, d, l)
     /\ UNCHANGED thr
  \/ /\ \E m \in MatchIds : DeleteMatch(m)
     /\ UNCHANGED thr

SpecTwoLeagues == Init /\ [][NextTwoLeagues]_vars

\* ------------------------------------------------ concurrent specification
\* Two threads call assign_referees_to_match on one Database.  The code takes
\* no lock, so the threads interleave between the validation (lines 19-54),
\* each get_next_assignment_id() and each add_assignment().

\* the repository after one league, three referees and two fixtures of the
\* same day were created (a state the sequential specification reaches)
SetUpDone ==
  /\ referees = [i \in 1..3 |->
                   [first_name |-> <<"J">>, last_name |-> <<"D">>,
                    email |-> EmailOf(i), category |-> 1,
                    role |-> RoleOf(i)]]
  /\ leagues = [i \in {1} |-> [name |-> <<"L">>, team_count |-> 4]]
  /\ teams = [i \in 1..4 |-> [name |-> League4[i], league_id |-> 1]]
  /\ matches = [i \in 1..2 |->
                  [team1_id |-> FixtureOf(i)[1], team2_id |-> FixtureOf(i)[2],
                   date |-> FixtureOf(i)[3], league_id |-> FixtureOf(i)[4]]]
  /\ assignments = EmptyTable
  /\ referee_counter = 4
  /\ league_counter = 2
  /\ team_counter = 5
  /\ match_counter = 3
  /\ assignment_counter = 1

InitConc ==
  /\ SetUpDone
  /\ last = Outcome("create_match", "ok")
  /\ thr = [t \in Threads |-> Idle]

\* thread t enters assign_referees_to_match(m, r, a1, a2)
Call(t, m, r, a1, a2) ==
  /\ thr[t].pc = "idle"
  /\ thr' = [thr EXCEPT ![t] =
               [Idle EXCEPT !.pc = "validate", !.match_id = m,
                            !.referee_id = r, !.assistant1_id = a1,
                            !.assistant2_id = a2]]
  /\ UNCHANGED <<db, last>>

\* thread t runs the checks of lines 19-54 on the repository as it is now
Validate(t) ==
  LET err == AssignCheck(thr[t].match_id, thr[t].referee_id,
                         thr[t].assistant1_id, thr[t].assistant2_id)
  IN
  /\ thr[t].pc = "validate"
  /\ thr' = [thr EXCEPT ![t].pc = IF err = "ok" THEN "alloc" ELSE "done",
                        ![t].err = err]
  /\ UNCHANGED <<db, last>>

\* thread t draws one id: get_next_assignment_id()
Alloc(t) ==
  /\ thr[t].pc = "alloc"
  /\ assignment_counter' = assignment_counter + 1
  /\ thr' = [thr EXCEPT ![t].ids = Append(@, assignment_counter),
                        ![t].pc = IF Len(thr[t].ids) = 2 THEN "add"
                                  ELSE "alloc"]
  /\ UNCHANGED <<tables, referee_counter, league_counter, team_counter,
                 match_counter, last>>

\* the k-th record thread t built
ThreadRecord(t, k) ==
  [match_id |-> thr[t].match_id,
   referee_id |-> CASE k = 1 -> thr[t].referee_id
                    [] k = 2 -> thr[t].assistant1_id
                    [] OTHER -> thr[t].assistant2_id,
   role |-> IF k = 1 THEN "Referee" ELSE "Assistant Referee"]

\* thread t stores its next record: add_assignment()
Add(t) ==
  LET k == thr[t].added + 1
  IN
  /\ thr[t].pc = "add"
  /\ assignments' = Put(assignments, thr[t].ids[k], ThreadRecord(t, k))
  /\ thr' = [thr EXCEPT ![t].added = k,
                        ![t].pc = IF k = 3 THEN "done" ELSE "add",
                        ![t].err = IF k = 3 THEN "ok" ELSE @]
  /\ UNCHANGED <<referees, leagues, teams, matches, counters, last>>

NextConc ==
  \/ \E t \in Threads, m \in DOMAIN matches, r \in {1}, a1 \in {2, 3},
        a2 \in {2, 3} : Call(t, m, r, a1, a2)
  \/ \E t \in Threads : Validate(t)
  \/ \E t \in Threads : Alloc(t)
  \/ \E t \in Threads : Add(t)

SpecConc == InitConc /\ [][NextConc]_vars

\* ------------------------------------------- league-service specification
\* a league name, the same name after a blank, and another name
LeagueNameInputs == {<<"L">>, <<" ", "L">>, <<"M">>}

\* the first n of seven different team names
TeamList(n) ==
  SubSeq(<< <<"A">>, <<"B">>, <<"C">>, <<"D">>, <<"E">>, <<"F">>, <<"G">> >>,
         1, n)

\* lists of three to seven different names, a list whose first name has a
\* leading blank, a list with a blank name, and a list whose third name is
\* the first one after a blank
TeamListInputs ==
  {TeamList(n) : n \in 3..7}
  \cup {<< <<" ", "A">>, <<"B">>, <<"C">>, <<"D">> >>,
        << <<"A">>, <<"B">>, <<" ">>, <<"D">> >>,
        << <<"A">>, <<"B">>, <<" ", "A">>, <<"D">> >>}

\* the league ids of the add_team_to_league requests
LeagueIds == 1..MaxLeagueId

\* the names of the add_team_to_league requests
TeamNameInputs == {<<"A">>, <<" ", "H">>, <<" ">>}

\* create_league_with_teams and add_team_to_league with any of the inputs
\* above, and the repository's delete_team
NextLeague ==
  \/ /\ league_counter <= MaxLeagueId
     /\ \E n \in LeagueNameInputs, tn \in TeamListInputs :
          CreateLeagueWithTeams(n, tn)
     /\ UNCHANGED thr
  \/ /\ \E l \in LeagueIds, n \in TeamNameInputs : AddTeamToLeague(l, n)
     /\ UNCHANGED thr
  \/ /\ \E t \in TeamIdsRemoved : DeleteTeam(t)
     /\ UNCHANGED thr

SpecLeague == Init /\ [][NextLeague]_vars

\* ---------------------------------------------- league-service specification
\* the two calls of LeagueService with any of the inputs of the league
\* specification, and the two calls of MatchService, which reads the teams,
\* with the fixtures of the roster; no call of the repository
NextManagers ==
  \/ /\ league_counter <= MaxLeagueId
     /\ \E n \in LeagueNameInputs, tn \in TeamListInputs :
          CreateLeagueWithTeams(n, tn)
     /\ UNCHANGED thr
  \/ /\ \E l \in LeagueIds, n \in TeamNameInputs : AddTeamToLeague(l, n)
     /\ UNCHANGED thr
  \/ /\ match_counter <= MaxMatchId
     /\ \E in \in {FixtureOf(match_counter)} :
          CreateMatch(in[1], in[2], in[3], in[4])
     /\ UNCHANGED thr
  \/ /\ \E m \in MatchIds : DeleteMatch(m)
     /\ UNCHANGED thr

SpecManagers == Init /\ [][NextManagers]_vars

\* ------------------------------------------- assignment-service specification
\* the repository after one league of four teams, six referees (two of role
\* "Referee", four of role "Assistant Referee") and three fixtures were
\* created: two fixtures on one day, the third on the next day
SetUpAssign ==
  /\ referees = [i \in 1..6 |->
                   [first_name |-> <<"J">>, last_name |-> <<"D">>,
                    email |-> EmailOf(i), category |-> 1,
                    role |-> RoleOf(i)]]
  /\ leagues = [i \in {1} |-> [name |-> <<"L">>, team_count |-> 4]]
  /\ teams = [i \in 1..4 |-> [name |-> League4[i], league_id |-> 1]]
  /\ matches = [i \in 1..3 |->
                  [team1_id |-> FixtureOf(i)[1], team2_id |-> FixtureOf(i)[2],
                   date |-> FixtureOf(i)[3], league_id |-> FixtureOf(i)[4]]]
  /\ assignments = EmptyTable
  /\ referee_counter = 7
  /\ league_counter = 2
  /\ team_counter = 5
  /\ match_counter = 4
  /\ assignment_counter = 1

InitAssign ==
  /\ SetUpAssign
  /\ last = Outcome("create_match", "ok")
  /\ thr = [t \in Threads |-> Idle]

\* the match ids of the assign and delete requests: the three stored ones and
\* one that was never handed out
MatchIdInputs == {1, 2, 3, 4}

\* (referee_id, assistant1_id, assistant2_id) of the assign requests: the
\* first main referee with the assistants 2 and 3 in both orders, the second
\* main referee with the assistants 2 and 3 or 5 and 6, and the requests that
\* break a rule: the main referee also as first assistant, an assistant as
\* main referee, the same assistant twice, an id that was never handed out
CrewInputs ==
  {<<1, 2, 3>>, <<1, 3, 2>>, <<4, 2, 3>>, <<4, 5, 6>>,
   <<1, 1, 3>>, <<2, 2, 3>>, <<1, 2, 2>>, <<1, 2, 7>>}

\* assign_referees_to_match and delete_match on the repository set up above
NextAssign ==
  \/ /\ \E m \in MatchIdInputs, c \in CrewInputs : Assign(m, c[1], c[2], c[3])
     /\ UNCHANGED thr
  \/ /\ \E m \in MatchIdInputs : DeleteMatch(m)
     /\ UNCHANGED thr

SpecAssign == InitAssign /\ [][NextAssign]_vars

\* -------------------------------------------------- lookup specification
\* the crews of the assign requests between the lookups
LookupCrews == {<<1, 2, 3>>, <<4, 2, 3>>, <<4, 5, 6>>}

\* the arguments of the lookups
LookupIds == {1, 9}
LookupDates == {"2030-01-01", "2030-01-02", "2030-01-01T10:00"}

\* AssignmentService.get_available_referees as a call
GetAvailableReferees(match_date) ==
  Query("get_available_referees", get_available_referees(match_date))

\* the lookups of the repository as calls
DatabaseLookup ==
  \/ \E i \in LookupIds :
       \/ Query("get_referee_by_id", get_by_id(referees, i))
       \/ Query("get_league_by_id", get_by_id(leagues, i))
       \/ Query("get_team_by_id", get_by_id(teams, i))
       \/ Query("get_match_by_id", get_by_id(matches, i))
       \/ Query("get_teams_by_league", get_teams_by_league(i))
       \/ Query("get_assignments_by_match", get_assignments_by_match(i))
       \/ \E d \in LookupDates :
            Query("get_assignments_by_referee_and_date",
                  get_assignments_by_referee_and_date(i, d))
  \/ Query("get_all_referees", get_all(referees))
  \/ Query("get_all_leagues", get_all(leagues))
  \/ Query("get_all_teams", get_all(teams))
  \/ Query("get_all_matches", get_all(matches))
  \/ Query("get_all_assignments", get_all(assignments))
  \/ \E k \in LookupIds :
       Query("get_referee_by_email", get_referee_by_email(EmailOf(k)))
  \/ \E n \in {<<"L">>, <<"M">>} :
       Query("get_league_by_name", get_league_by_name(n))
  \/ \E d \in LookupDates :
       \/ Query("get_matches_by_date", get_matches_by_date(d))
       \/ Query("get_matches_by_teams_and_date",
                get_matches_by_teams_and_date(2, 1, d))

\* the names of the lookups
LookupOps ==
  {"get_referee_by_id", "get_league_by_id", "get_team_by_id",
   "get_match_by_id", "get_teams_by_league", "get_assignments_by_match",
   "get_assignments_by_referee_and_date", "get_all_referees",
   "get_all_leagues", "get_all_teams", "get_all_matches",
   "get_all_assignments", "get_referee_by_email", "get_league_by_name",
   "get_matches_by_date", "get_matches_by_teams_and_date",
   "get_available_referees", "get_upcoming_matches"}

\* MatchService.get_upcoming_matches as a call made on the day today
GetUpcomingMatches(limit, today) ==
  Query("get_upcoming_matches", get_upcoming_matches(limit, today))

\* assign_referees_to_match, delete_match and delete_referee on the
\* repository of the assignment-service specification, and every lookup
NextLookup ==
  \/ /\ \E m \in MatchIdInputs, c \in LookupCrews :
          Assign(m, c[1], c[2], c[3])
     /\ UNCHANGED thr
  \/ /\ \E m \in MatchIdInputs : DeleteMatch(m)
     /\ UNCHANGED thr
  \/ /\ DeleteReferee(1)
     /\ UNCHANGED thr
  \/ /\ \E d \in LookupDates : GetAvailableReferees(d)
     /\ UNCHANGED thr
  \/ /\ \E d \in LookupDates : GetUpcomingMatches(1, d)
     /\ UNCHANGED thr
  \/ /\ DatabaseLookup
     /\ UNCHANGED thr

SpecLookup == InitAssign /\ [][NextLookup]_vars

\* ---------------------------------------- upcoming-matches specification
\* the values of limit, and the days on which get_upcoming_matches is called
LimitInputs == {-1, 0, 1, 2, 3}
TodayInputs == {"2029-12-31", "2030-01-01", "2030-01-02", "2030-01-03"}

\* one league of four teams, create_match of the next fixture of the roster
\* with any date string, delete_match, and get_upcoming_matches
NextUpcoming ==
  \/ /\ CreateLeagueWithTeams(<<"L">>, League4)
     /\ UNCHANGED thr
  \/ /\ match_counter <= MaxMatchId + 1
     /\ \E d \in DateInputs :
          CreateMatch(FixtureOf(match_counter)[1], FixtureOf(match_counter)[2],
                      d, 1)
     /\ UNCHANGED thr
  \/ /\ \E m \in MatchIds : DeleteMatch(m)
     /\ UNCHANGED thr
  \/ /\ \E n \in LimitInputs, d \in TodayInputs : GetUpcomingMatches(n, d)
     /\ UNCHANGED thr

SpecUpcoming == Init /\ [][NextUpcoming]_vars

\* ------------------------------------------------ web-layer specification
\* the assign and reassign requests of the web layer on the repository of
\* the assignment-service specification
NextWeb ==
  \/ /\ MaxKey(assignments) + 3 <= MaxAssignmentId
     /\ \E m \in MatchIdInputs, c \in CrewInputs :
          WebAssign(m, c[1], c[2], c[3])
     /\ UNCHANGED thr
  \/ /\ MaxKey(assignments) + 3 <= MaxAssignmentId
     /\ \E m \in MatchIdInputs, c \in CrewInputs :
          Reassign(m, c[1], c[2], c[3])
     /\ UNCHANGED thr

SpecWeb == InitAssign /\ [][NextWeb]_vars

\* ------------------------------------------------- officials specification
\* the referees a caller deletes: the officials of the first crew
RefereeIdsDeleted == {1, 2, 3}

\* assign_referees_to_match with the crews of the lookup specification,
\* delete_referee and delete_match on the repository of the
\* assignment-service specification
NextOfficials ==
  \/ /\ \E m \in MatchIdInputs, c \in LookupCrews :
          Assign(m, c[1], c[2], c[3])
     /\ UNCHANGED thr
  \/ /\ \E i \in RefereeIdsDeleted : DeleteReferee(i)
     /\ UNCHANGED thr
  \/ /\ \E m \in MatchIdInputs : DeleteMatch(m)
     /\ UNCHANGED thr

SpecOfficials == InitAssign /\ [][NextOfficials]_vars

\* ------------------------------------------------ side-by-side specification
\* assign_referees_to_match with every crew of the assignment specification,
\* delete_referee of the first assistant and delete_match on the repository
\* set up above: the stored data on which the request of the service is
\* also given to the handler of app.py
NextSideBySide ==
  \/ /\ \E m \in MatchIdInputs, c \in CrewInputs : Assign(m, c[1], c[2], c[3])
     /\ UNCHANGED thr
  \/ /\ DeleteReferee(2)
     /\ UNCHANGED thr
  \/ /\ \E m \in MatchIdInputs : DeleteMatch(m)
     /\ UNCHANGED thr

SpecSideBySide == InitAssign /\ [][NextSideBySide]_vars

\* ------------------------------------------------------------- error kinds
\* the error kind of the design document for each error the code raises
Kind(err) ==
  CASE err \in {"MatchNotFound", "RefereeNotFound", "TeamNotFound",
                "LeagueNotFound"} -> "NotFound"
    [] err \in {"FirstNameRequired", "LastNameRequired", "EmailRequired",
                "InvalidCategory", "InvalidRole", "EmptyTeamName",
                "SameTeam"} -> "InvalidField"
    [] err \in {"MainRoleMismatch", "AssistantRoleMismatch"} -> "RoleMismatch"
    [] err \in {"DuplicateLeagueName", "DuplicateTeamName"} -> "DuplicateName"
    [] OTHER -> err

\* the match a row belongs to is stored
RowMatchStored(a) == assignments[a].match_id \in DOMAIN matches

\* the date of the match a row belongs to
RowDate(a) == matches[assignments[a].match_id].date

\* the stored referees of a role
WithRole(role) == {i \in DOMAIN referees : referees[i].role = role}

\* ------------------------------------------------------------------ claims
\* C1: no referee holds two assignments whose matches have the same date
\* (the stored date values are equal).
C1_NoDoubleBooking ==
  \A a \in DOMAIN assignments : \A b \in DOMAIN assignments :
    (/\ a # b
     /\ assignments[a].referee_id = assignments[b].referee_id
     /\ RowMatchStored(a) /\ RowMatchStored(b))
    => RowDate(a) # RowDate(b)

\* C1 witness: a second set of assignments was written: the officials of
\* one match were released by a delete and booked again on another match.
C1_Witness ==
  /\ last.op = "assign" /\ last.err = "ok"
  /\ assignment_counter > 4
  /\ \E a \in DOMAIN assignments :
       RowMatchStored(a) /\ assignments[a].match_id > 1

\* C2 (as claimed): every match has no assignment or exactly three, one
\* "Referee" and two "Assistant Referee", of three distinct referees.
C2_CompleteSets ==
  \A m \in DOMAIN matches :
    LET S == get_assignments_by_match(m)
    IN \/ S = {}
       \/ /\ Cardinality(S) = 3
          /\ Cardinality({a \in S : assignments[a].role = "Referee"}) = 1
          /\ Cardinality({a \in S :
                            assignments[a].role = "Assistant Referee"}) = 2
          /\ Cardinality({assignments[a].referee_id : a \in S}) = 3

\* C3 (as claimed): an assign on a match that holds its three assignments,
\* with a stored main referee of role "Referee" and two different stored
\* assistants of role "Assistant Referee", fails with AlreadyAssigned and
\* changes nothing.
C3_SecondAssignAlreadyAssigned ==
  [][last'.op = "assign" =>
       \A m \in DOMAIN matches, r \in WithRole("Referee"),
          a1 \in WithRole("Assistant Referee"),
          a2 \in WithRole("Assistant Referee") :
         (/\ a1 # a2
          /\ Cardinality(get_assignments_by_match(m)) = 3
          /\ Assign(m, r, a1, a2))
         => (Kind(last'.err) = "AlreadyAssigned" /\ UNCHANGED db)]_vars

\* a referee of refs holds an assignment on a stored match other than m whose
\* date is the date of m
BookedElsewhere(m, refs) ==
  \E a \in DOMAIN assignments :
    /\ assignments[a].referee_id \in refs
    /\ assignments[a].match_id # m
    /\ RowMatchStored(a)
    /\ RowDate(a) = matches[m].date

\* C4: an otherwise valid assign (stored match, a stored main referee of
\* role "Referee", two different stored assistants of role "Assistant
\* Referee") that includes a referee holding an assignment on a different
\* match of the same date fails with DoubleBooked and writes nothing.
C4_DoubleBookedRejected ==
  [][last'.op = "assign" =>
       \A m \in DOMAIN matches, r \in WithRole("Referee"),
          a1 \in WithRole("Assistant Referee"),
          a2 \in WithRole("Assistant Referee") :
         (/\ a1 # a2
          /\ BookedElsewhere(m, {r, a1, a2})
          /\ Assign(m, r, a1, a2))
         => (Kind(last'.err) = "DoubleBooked" /\ UNCHANGED db)]_vars

\* C4 witness: the last assign was rejected as double-booked, the referee it
\* names holds a row on match A, and a different match B of the same date
\* holds no row.
C4_Witness ==
  /\ last.op = "assign" /\ last.err = "DoubleBooked"
  /\ \E a \in DOMAIN assignments : \E B \in DOMAIN matches :
       /\ assignments[a].referee_id = last.who
       /\ RowMatchStored(a)
       /\ B # assignments[a].match_id
       /\ matches[B].date = RowDate(a)
       /\ get_assignments_by_match(B) = {}

\* C5 (as claimed): an assign whose referee_id equals its assistant1_id, match
\* and referees existing, fails with DuplicateReferee and the number of
\* stored assignments is unchanged.
C5_SameRefereeTwiceIsDuplicate ==
  [][last'.op = "assign" =>
       \A m \in MatchIds, r \in RefereeIds, a2 \in RefereeIds :
         (/\ m \in DOMAIN matches
          /\ {r, a2} \subseteq DOMAIN referees
          /\ Assign(m, r, r, a2))
         => /\ Kind(last'.err) = "DuplicateReferee"
            /\ Cardinality(DOMAIN assignments') =
                 Cardinality(DOMAIN assignments)]_vars

\* C6: every assign call either fails and leaves the whole repository
\* (counters included) unchanged, or adds exactly three rows, all of the
\* target match, and changes no other row and no other table.
C6_AssignAllOrNothing ==
  [][last'.op = "assign" =>
       \/ last'.err # "ok" /\ UNCHANGED db
       \/ /\ last'.err = "ok"
          /\ DOMAIN assignments \subseteq DOMAIN assignments'
          /\ \A a \in DOMAIN assignments : assignments'[a] = assignments[a]
          /\ LET new == DOMAIN assignments' \ DOMAIN assignments
             IN /\ Cardinality(new) = 3
                /\ \E m \in DOMAIN matches :
                     \A a \in new : assignments'[a].match_id = m
          /\ UNCHANGED <<referees, leagues, teams, matches, referee_counter,
                         league_counter, team_counter, match_counter>>]_vars

\* C6 witness: a successful assign left exactly its three rows, and a failed
\* one is possible in the same run (a row exists while the last call failed
\* is covered by C4_Witness).
C6_Witness ==
  /\ last.op = "assign" /\ last.err = "ok"
  /\ Cardinality(DOMAIN assignments) = 3
  /\ \E m \in DOMAIN matches :
       Cardinality(get_assignments_by_match(m)) = 3

\* thread t returned its three assignments
Committed(t) == thr[t].pc = "done" /\ thr[t].err = "ok"

\* the calls of threads t and u target the same match, or share a referee on
\* matches of the same date
Overlap(t, u) ==
  \/ thr[t].match_id = thr[u].match_id
  \/ /\ {thr[t].referee_id, thr[t].assistant1_id, thr[t].assistant2_id}
          \cap {thr[u].referee_id, thr[u].assistant1_id,
                thr[u].assistant2_id} # {}
     /\ matches[thr[t].match_id].date = matches[thr[u].match_id].date

\* C7 (as claimed): of two concurrent assign calls that target the same
\* match, or share a referee on matches of the same date, at most one passes
\* validation and commits its three rows.
C7_AtMostOneCommits ==
  \A t \in Threads : \A u \in Threads :
    (t # u /\ Committed(t) /\ Committed(u)) => ~Overlap(t, u)

\* C8 (as claimed): no two stored referees have the same normalized email.
C8_UniqueEmails ==
  \A i \in DOMAIN referees : \A j \in DOMAIN referees :
    i # j => Lower(Strip(referees[i].email)) # Lower(Strip(referees[j].email))

\* C9 (as claimed): a create call that fails leaves the repository, every id
\* counter included, as it was.
C9_FailedCreateChangesNothing ==
  [][(/\ last'.op \in {"create_referee", "create_league_with_teams",
                       "add_team_to_league", "create_match"}
      /\ last'.err # "ok")
     => UNCHANGED db]_vars

\* C10 (as claimed): create_match with team1_id = team2_id fails with
\* InvalidField, whatever the other inputs are, and stores no match.
C10_SameTeamInvalidField ==
  [][last'.op = "create_match" =>
       \A t \in TeamIdInputs, d \in DateInputs, l \in LeagueIdInputs :
         CreateMatch(t, t, d, l)
         => (Kind(last'.err) = "InvalidField" /\ matches' = matches)]_vars

\* C11: after delete_match(M) succeeds no row with match_id M remains, M is
\* no longer stored, and the rows of the other matches are as they were (none
\* removed, none changed, none added).
C11_DeleteMatchCascades ==
  [][last'.op = "delete_match" =>
       \A M \in MatchIdInputs :
         (M \in DOMAIN matches /\ DeleteMatch(M))
         => /\ last'.err = "ok"
            /\ {a \in DOMAIN assignments' : assignments'[a].match_id = M} = {}
            /\ M \notin DOMAIN matches'
            /\ DOMAIN assignments' \subseteq DOMAIN assignments
            /\ \A a \in DOMAIN assignments :
                 assignments[a].match_id # M
                 => (a \in DOMAIN assignments'
                     /\ assignments'[a] = assignments[a])]_vars

\* C11 witness: two matches were assigned, then one of them was deleted (the
\* only delete so far): its three rows are gone, the three rows of the other
\* match remain.
C11_Witness ==
  /\ last.op = "delete_match" /\ last.err = "ok"
  /\ Cardinality(DOMAIN matches) = 2
  /\ assignment_counter = 7
  /\ Cardinality(DOMAIN assignments) = 3

\* C12: every stored assignment references a stored match and a stored
\* referee, after any sequence of service calls.
C12_ReferentialIntegrity ==
  \A a \in DOMAIN assignments :
    /\ assignments[a].match_id \in DOMAIN matches
    /\ assignments[a].referee_id \in DOMAIN referees

\* C12 witness: a referee who held one of the three rows of a match was
\* deleted: the two rows of the other officials remain.
C12_Witness ==
  /\ last.op = "delete_referee" /\ last.err = "ok"
  /\ Cardinality(DOMAIN assignments) = 2
  /\ Cardinality(DOMAIN referees) = 2

\* C13: a successful assign(m, r, a1, a2) adds exactly the three rows
\* (r, "Referee"), (a1, "Assistant Referee"), (a2, "Assistant Referee") of
\* match m, under the ids n, n + 1, n + 2 in this order, where n is the value
\* of the assignment id counter before the call; these ids are above every id
\* in use, the counter ends at n + 3, and no other row is added, removed or
\* changed.
C13_ThreeRowsInOrder ==
  [][(last'.op = "assign" /\ last'.err = "ok") =>
       \A m \in MatchIdInputs, c \in CrewInputs :
         Assign(m, c[1], c[2], c[3])
         => LET n == assignment_counter
            IN /\ \A a \in DOMAIN assignments : a < n
               /\ DOMAIN assignments' = DOMAIN assignments \cup {n, n + 1, n + 2}
               /\ assignments'[n] =
                    [match_id |-> m, referee_id |-> c[1], role |-> "Referee"]
               /\ assignments'[n + 1] =
                    [match_id |-> m, referee_id |-> c[2],
                     role |-> "Assistant Referee"]
               /\ assignments'[n + 2] =
                    [match_id |-> m, referee_id |-> c[3],
                     role |-> "Assistant Referee"]
               /\ \A a \in DOMAIN assignments :
                    assignments'[a] = assignments[a]
               /\ assignment_counter' = n + 3]_vars

\* C13 witness: the second successful assign stored its rows under the ids
\* 4, 5, 6, the first assistant having the larger referee id.
C13_Witness ==
  /\ last.op = "assign" /\ last.err = "ok"
  /\ assignment_counter = 7
  /\ {4, 5, 6} \subseteq DOMAIN assignments
  /\ assignments[4].role = "Referee"
  /\ assignments[5].referee_id > assignments[6].referee_id

\* referee r holds a row on a stored match of date d
BookedOn(r, d) ==
  \E a \in DOMAIN assignments :
    /\ assignments[a].referee_id = r
    /\ RowMatchStored(a)
    /\ RowDate(a) = d

\* the first of the positions main referee, assistant1, assistant2 of crew c
\* whose referee is booked on date d
FirstInPositionOrder(c, d) ==
  IF BookedOn(c[1], d) THEN c[1]
  ELSE IF BookedOn(c[2], d) THEN c[2]
  ELSE c[3]

\* C14 (as claimed): when an assign is rejected as double-booked and more
\* than one of its three referees is booked on the date of the match, the
\* referee the error names is the first booked one in the order main
\* referee, assistant1, assistant2.
C14_FirstConflictInPositionOrder ==
  [][(last'.op = "assign" /\ last'.err = "DoubleBooked") =>
       \A m \in MatchIdInputs, c \in CrewInputs :
         (/\ m \in DOMAIN matches
          /\ Cardinality({r \in {c[1], c[2], c[3]} :
                            BookedOn(r, matches[m].date)}) > 1
          /\ Assign(m, c[1], c[2], c[3]))
         => last'.who = FirstInPositionOrder(c, matches[m].date)]_vars

\* the first rule, in the order match NotFound, referee NotFound,
\* RoleMismatch, DuplicateReferee, DoubleBooked, AlreadyAssigned, that the
\* request assign(m, c[1], c[2], c[3]) breaks in the current state
FirstViolation(m, c) ==
  IF m \notin DOMAIN matches THEN "MatchNotFound"
  ELSE IF \E i \in 1..3 : c[i] \notin DOMAIN referees THEN "RefereeNotFound"
  ELSE IF \/ referees[c[1]].role # "Referee"
          \/ \E i \in 2..3 : referees[c[i]].role # "Assistant Referee"
  THEN "RoleMismatch"
  ELSE IF c[1] = c[2] \/ c[1] = c[3] \/ c[2] = c[3] THEN "DuplicateReferee"
  ELSE IF \E i \in 1..3 : BookedOn(c[i], matches[m].date)
  THEN "DoubleBooked"
  ELSE IF \E a \in DOMAIN assignments : assignments[a].match_id = m
  THEN "AlreadyAssigned"
  ELSE "ok"

\* C15: the error an assign call reports is the one of the first rule it
\* breaks in the order match NotFound, referee NotFound, RoleMismatch,
\* DuplicateReferee, DoubleBooked, AlreadyAssigned; it succeeds when it breaks
\* none.
C15_EarliestFailingStep ==
  [][last'.op = "assign" =>
       \A m \in MatchIdInputs, c \in CrewInputs :
         Assign(m, c[1], c[2], c[3])
         => (IF Kind(last'.err) = "RoleMismatch" THEN "RoleMismatch"
             ELSE last'.err) = FirstViolation(m, c)]_vars

\* C15 witness: an assign was rejected as double-booked while every stored
\* match holds rows, so that the request broke the AlreadyAssigned rule too,
\* and the officials of the two matches of one day are six different people.
C15_Witness ==
  /\ last.op = "assign" /\ last.err = "DoubleBooked"
  /\ matches # EmptyTable
  /\ \A m \in DOMAIN matches : get_assignments_by_match(m) # {}
  /\ Cardinality({assignments[a].referee_id : a \in DOMAIN assignments}) = 6

\* the names of the list are non-empty and pairwise different after trimming
ValidTeamNames(tn) ==
  /\ \A i \in 1..Len(tn) : Strip(tn[i]) # <<>>
  /\ \A i \in 1..Len(tn) : \A j \in 1..Len(tn) :
       i # j => Strip(tn[i]) # Strip(tn[j])

\* C16: create_league_with_teams with a name no stored league has and a list
\* of non-empty names that are pairwise different after trimming succeeds if
\* and only if the list has 4, 5 or 6 names; with 3 or 7 names it fails with
\* InvalidTeamCount and stores nothing; and every stored league has a
\* team_count from 4 to 6.
C16_TeamCountFourToSix ==
  [][last'.op = "create_league_with_teams" =>
       /\ \A l \in DOMAIN leagues' :
            4 <= leagues'[l].team_count /\ leagues'[l].team_count <= 6
       /\ \A n \in LeagueNameInputs, tn \in TeamListInputs :
            (/\ \A l \in DOMAIN leagues : leagues[l].name # n
             /\ ValidTeamNames(tn)
             /\ CreateLeagueWithTeams(n, tn))
            => /\ last'.err = "ok" <=> Len(tn) \in {4, 5, 6}
               /\ Len(tn) \in {3, 7}
                  => (Kind(last'.err) = "InvalidTeamCount"
                      /\ UNCHANGED db)]_vars

\* C16 witness: create_league_with_teams succeeded at both ends of the range:
\* a league of four and a league of six teams are stored, each with as many
\* teams as its team_count.
C16_Witness ==
  /\ last.op = "create_league_with_teams" /\ last.err = "ok"
  /\ \E l \in DOMAIN leagues :
       /\ leagues[l].team_count = 4
       /\ Cardinality(get_teams_by_league(l)) = 4
  /\ \E l \in DOMAIN leagues :
       /\ leagues[l].team_count = 6
       /\ Cardinality(get_teams_by_league(l)) = 6

\* C17 (as claimed): no two stored leagues have the same stored name.
C17_UniqueLeagueNames ==
  \A i \in DOMAIN leagues : \A j \in DOMAIN leagues :
    i # j => leagues[i].name # leagues[j].name

\* C18: every league has at most team_count teams, no two teams of a league
\* have the same name, every team name is non-empty (also after trimming),
\* and every team references a stored league.
C18_TeamsWellFormed ==
  /\ \A l \in DOMAIN leagues :
       Cardinality({t \in DOMAIN teams : teams[t].league_id = l})
         <= leagues[l].team_count
  /\ \A t \in DOMAIN teams : \A u \in DOMAIN teams :
       (t # u /\ teams[t].league_id = teams[u].league_id)
       => teams[t].name # teams[u].name
  /\ \A t \in DOMAIN teams :
       /\ Strip(teams[t].name) # <<>>
       /\ teams[t].league_id \in DOMAIN leagues

\* C18 witness: add_team_to_league succeeded (a team had been removed from
\* the league before) and filled its league up to team_count again.
C18_Witness ==
  /\ last.op = "add_team_to_league" /\ last.err = "ok"
  /\ \E l \in DOMAIN leagues :
       Cardinality({t \in DOMAIN teams : teams[t].league_id = l})
         = leagues[l].team_count

\* C19: a successful create_league_with_teams(n, tn) stores one new league,
\* whose team_count is the number of names, and one new team per name: the
\* i-th name (trimmed) is the name of the new team with the i-th smallest id,
\* and every new team references the new league; the leagues and teams that
\* were stored stay as they were.
C19_LeagueThenTeamsInOrder ==
  [][(last'.op = "create_league_with_teams" /\ last'.err = "ok") =>
       \A n \in LeagueNameInputs, tn \in TeamListInputs :
         CreateLeagueWithTeams(n, tn)
         => LET newL == DOMAIN leagues' \ DOMAIN leagues
                newT == DOMAIN teams' \ DOMAIN teams
            IN /\ Cardinality(newL) = 1
               /\ \A l \in newL : leagues'[l].team_count = Len(tn)
               /\ Cardinality(newT) = Len(tn)
               /\ \A i \in 1..Len(tn) :
                    \E t \in newT :
                      /\ Cardinality({u \in newT : u < t}) = i - 1
                      /\ teams'[t].name = Strip(tn[i])
                      /\ teams'[t].league_id \in newL
               /\ \A l \in DOMAIN leagues :
                    l \in DOMAIN leagues' /\ leagues'[l] = leagues[l]
               /\ \A t \in DOMAIN teams :
                    t \in DOMAIN teams' /\ teams'[t] = teams[t]]_vars

\* C19 witness: a second league was created, with five teams whose ids follow
\* the ids of the first league's teams.
C19_Witness ==
  /\ last.op = "create_league_with_teams" /\ last.err = "ok"
  /\ Cardinality(DOMAIN leagues) = 2
  /\ \E l \in DOMAIN leagues :
       /\ leagues[l].team_count = 5
       /\ Cardinality({t \in DOMAIN teams : teams[t].league_id = l}) = 5
       /\ \A t \in DOMAIN teams : teams[t].league_id = l => t > 4

\* stored match m has the date value d and the teams t1 and t2, in either
\* order
SameFixture(m, t1, t2, d) ==
  /\ matches[m].date = d
  /\ {matches[m].team1_id, matches[m].team2_id} = {t1, t2}

\* C20: create_match(A, B, d), with the league of the two teams, fails with
\* DuplicateFixture and changes nothing when a stored match has the date
\* value d and the teams (A, B) or (B, A); and after every create_match no
\* two stored matches have the same date value and the same unordered pair
\* of teams.
C20_FixturesUnique ==
  [][last'.op = "create_match" =>
       /\ \A m \in DOMAIN matches' : \A k \in DOMAIN matches' :
            m # k => ~(/\ matches'[m].date = matches'[k].date
                       /\ {matches'[m].team1_id, matches'[m].team2_id}
                            = {matches'[k].team1_id, matches'[k].team2_id})
       /\ \A t1 \in TeamIdInputs, t2 \in TeamIdInputs, d \in DateInputs,
             l \in LeagueIdInputs :
            (/\ \E m \in DOMAIN matches :
                  SameFixture(m, t1, t2, d) /\ matches[m].league_id = l
             /\ CreateMatch(t1, t2, d, l))
            => (Kind(last'.err) = "DuplicateFixture" /\ UNCHANGED db)]_vars

\* C20 witness: a create_match was rejected as a duplicate fixture while a
\* stored match has its teams in descending id order.
C20_Witness ==
  /\ last.op = "create_match" /\ last.err = "DuplicateFixture"
  /\ \E m \in DOMAIN matches : matches[m].team1_id > matches[m].team2_id

\* C21: every stored match has two different teams, both stored and both of
\* the league of the match; create_match fails with NotFound when a team id
\* is not stored, and with LeagueMismatch when both teams are stored and one
\* of them belongs to another league than the one given, storing nothing.
C21_MatchTeamsOfItsLeague ==
  [][last'.op = "create_match" =>
       /\ \A m \in DOMAIN matches' :
            /\ matches'[m].team1_id # matches'[m].team2_id
            /\ {matches'[m].team1_id, matches'[m].team2_id}
                 \subseteq DOMAIN teams'
            /\ teams'[matches'[m].team1_id].league_id = matches'[m].league_id
            /\ teams'[matches'[m].team2_id].league_id = matches'[m].league_id
       /\ \A t1 \in TwoLeagueTeamIds, t2 \in TwoLeagueTeamIds,
             d \in TwoLeagueDates, l \in LeagueIdInputs :
            CreateMatch(t1, t2, d, l)
            => /\ ~({t1, t2} \subseteq DOMAIN teams)
                  => (Kind(last'.err) = "NotFound" /\ matches' = matches)
               /\ ({t1, t2} \subseteq DOMAIN teams
                   /\ (teams[t1].league_id # l \/ teams[t2].league_id # l))
                  => (Kind(last'.err) = "LeagueMismatch"
                      /\ matches' = matches)]_vars

\* C21 witness: with two leagues and a match of the second league stored, a
\* create_match was rejected because a team belongs to another league.
C21_Witness ==
  /\ last.op = "create_match" /\ last.err = "LeagueMismatch"
  /\ Cardinality(DOMAIN leagues) = 2
  /\ \E m \in DOMAIN matches : matches[m].league_id = 2

\* a referee as the claim wants it stored
WellFormedReferee(r) ==
  /\ r.category \in {1, 2}
  /\ r.role \in {"Referee", "Assistant Referee"}
  /\ r.first_name # <<>> /\ Strip(r.first_name) = r.first_name
  /\ r.last_name # <<>> /\ Strip(r.last_name) = r.last_name
  /\ r.email # <<>> /\ Lower(Strip(r.email)) = r.email

\* C22: every stored referee has category 1 or 2, one of the two roles,
\* non-empty trimmed names and a trimmed lower-case email; create_referee
\* with another category or role or with a blank name fails with
\* InvalidField (when the email lookup that precedes these tests finds
\* nothing) and stores no referee.
C22_RefereesWellFormed ==
  [][last'.op = "create_referee" =>
       /\ \A i \in DOMAIN referees' : WellFormedReferee(referees'[i])
       /\ \/ Kind(last'.err) = "InvalidField" /\ referees' = referees
          \/ \A f \in NameInputs, l \in NameInputs, e \in EmailInputs,
                c \in CategoryInputs, r \in RoleInputs :
               ~(/\ ~get_referee_by_email(e)
                 /\ \/ c \notin {1, 2}
                    \/ r \notin {"Referee", "Assistant Referee"}
                    \/ Strip(f) = <<>>
                    \/ Strip(l) = <<>>
                 /\ CreateReferee(f, l, e, c, r))]_vars

\* C22 witness: with a referee stored, a create_referee was rejected for its
\* role.
C22_Witness ==
  /\ last.op = "create_referee" /\ last.err = "InvalidRole"
  /\ referees # EmptyTable

\* one step of one entity kind: the counter does not go back, every id that
\* is stored by the step was not handed out before (it is at least the old
\* counter) and is below the new counter, and so is every stored id
FreshIds(before, after, counter, counter2) ==
  /\ counter2 >= counter
  /\ \A i \in DOMAIN after \ DOMAIN before : counter <= i /\ i < counter2
  /\ \A i \in DOMAIN after : 1 <= i /\ i < counter2

\* C23: for each entity kind the ids start at 1 and only grow: an id that was
\* handed out is never handed out again, also not after its entity was
\* deleted.
C23_IdsNeverReused ==
  /\ counters = <<1, 1, 1, 1, 1>>
  /\ [][/\ FreshIds(referees, referees', referee_counter, referee_counter')
        /\ FreshIds(leagues, leagues', league_counter, league_counter')
        /\ FreshIds(teams, teams', team_counter, team_counter')
        /\ FreshIds(matches, matches', match_counter, match_counter')
        /\ FreshIds(assignments, assignments', assignment_counter,
                    assignment_counter')]_vars

\* C23 witness: referee 1 was deleted and a referee created afterwards got a
\* higher id; match 1 was deleted too.
C23_Witness ==
  /\ last.op = "create_referee" /\ last.err = "ok"
  /\ 1 \notin DOMAIN referees
  /\ referee_counter - 1 \in DOMAIN referees
  /\ match_counter > 1 /\ 1 \notin DOMAIN matches

\* C24: delete_referee and delete_match of the services on an id that is not
\* stored fail with NotFound and change nothing; an id that was deleted is
\* never stored again, so deleting it a second time fails too; the delete
\* functions of the repository on an absent id change nothing and raise
\* nothing.
C24_DeleteAbsent ==
  [][/\ \A i \in RefereeIds :
          /\ (i \notin DOMAIN referees /\ DeleteReferee(i))
             => (Kind(last'.err) = "NotFound" /\ UNCHANGED db)
          /\ (i \notin DOMAIN referees /\ delete_referee(i))
             => (last'.err = "ok" /\ UNCHANGED db)
          /\ (i < referee_counter /\ i \notin DOMAIN referees)
             => i \notin DOMAIN referees'
     /\ \A m \in MatchIds :
          /\ (m \notin DOMAIN matches /\ DeleteMatch(m))
             => (Kind(last'.err) = "NotFound" /\ UNCHANGED db)
          /\ (m \notin DOMAIN matches /\ delete_match(m))
             => (last'.err = "ok" /\ UNCHANGED db)
          /\ (m < match_counter /\ m \notin DOMAIN matches)
             => m \notin DOMAIN matches'
     /\ \A t \in TeamIdsRemoved :
          (t \notin DOMAIN teams /\ DeleteTeam(t))
          => (last'.err = "ok" /\ UNCHANGED db)]_vars

\* C24 witness: referee 1 was deleted earlier, other referees and a match are
\* stored, and a second delete_referee(1) has just failed.
C24_Witness ==
  /\ last.op = "delete_referee" /\ last.err = "RefereeNotFound"
  /\ referee_counter > 2 /\ 1 \notin DOMAIN referees
  /\ referees # EmptyTable /\ matches # EmptyTable

\* C25: get_available_referees(d) returns exactly the stored referees that
\* hold no assignment on a match of date d.
C25_AvailableAreTheUnbooked ==
  [][last'.op = "get_available_referees" =>
       \A d \in LookupDates :
         GetAvailableReferees(d)
         => last'.ret = {r \in DOMAIN referees : ~BookedOn(r, d)}]_vars

\* C25 witness: with referee 1 deleted and rows stored, the call returned
\* some referees and left a booked one out.
C25_Witness ==
  /\ last.op = "get_available_referees"
  /\ last.ret # {} /\ last.ret # DOMAIN referees
  /\ 1 \notin DOMAIN referees
  /\ assignments # EmptyTable

\* C29: no lookup changes the repository: after a lookup of the repository,
\* get_available_referees or get_upcoming_matches every table and every id
\* counter is as before.
C29_LookupsChangeNothing ==
  [][last'.op \in LookupOps => UNCHANGED db]_vars

\* C29 witness: with matches 1 and 2 staffed, a lookup returned rows.
C29_Witness ==
  /\ last.op = "get_assignments_by_match" /\ last.ret # {}
  /\ Cardinality(DOMAIN assignments) > 3

\* the calendar day of a stored date string
CalendarDay(d) == IF d = "2030-01-01T10:00" THEN "2030-01-01" ELSE d

\* the calendar days of the model, earliest first
DaysInOrder == <<"2029-12-31", "2030-01-01", "2030-01-02", "2030-01-03">>

\* the place of the calendar day of d among them
DayRank(d) == CHOOSE i \in DOMAIN DaysInOrder : DaysInOrder[i] = CalendarDay(d)

\* the stored matches that are played on the day today or later
Upcoming(today) ==
  {m \in DOMAIN matches : DayRank(matches[m].date) >= DayRank(today)}

OfficialsOf(rows, m) ==
  {<<rows[a].referee_id, rows[a].role>> :
     a \in {b \in DOMAIN rows : rows[b].match_id = m}}

\* C26: a reassign request that names the three officials the match has
\* (the same main referee, the same two assistants) succeeds, and afterwards
\* the match has exactly three rows, for the same officials; the rows of the
\* other matches are not touched.
C26_ReassignSameOfficials ==
  [][last'.op = "reassign" =>
       \A m \in MatchIdInputs, c \in CrewInputs :
         (/\ Reassign(m, c[1], c[2], c[3])
          /\ Cardinality(get_assignments_by_match(m)) = 3
          /\ OfficialsOf(assignments, m)
               = {<<c[1], "Referee">>, <<c[2], "Assistant Referee">>,
                  <<c[3], "Assistant Referee">>})
         => /\ last'.err = "ok"
            /\ Cardinality({a \in DOMAIN assignments' :
                              assignments'[a].match_id = m}) = 3
            /\ OfficialsOf(assignments', m) = OfficialsOf(assignments, m)
            /\ \A k \in MatchIdInputs \ {m} :
                 \A a \in DOMAIN assignments :
                   assignments[a].match_id = k
                   => (a \in DOMAIN assignments'
                       /\ assignments'[a] = assignments[a])]_vars

\* C26 witness: two matches of the same date are staffed, and match 1 was
\* reassigned to the officials it had; its rows got new ids.
C26_Witness ==
  /\ last.op = "reassign" /\ last.err = "ok"
  /\ OfficialsOf(assignments, 1)
       = {<<1, "Referee">>, <<2, "Assistant Referee">>,
          <<3, "Assistant Referee">>}
  /\ OfficialsOf(assignments, 2)
       = {<<4, "Referee">>, <<5, "Assistant Referee">>,
          <<6, "Assistant Referee">>}
  /\ \A a \in get_assignments_by_match(1) :
       \A b \in get_assignments_by_match(2) : a > b

\* C27 (as claimed): while a thread is writing the three rows of its assign,
\* no other thread reads the assignment rows (the lookups in the validation
\* of another assign, which are reached when the checks before them pass)
\* while only one or two of the three rows are stored.
C27_NoPartialSetObserved ==
  [][\A u \in Threads :
       (/\ Validate(u)
        /\ thr'[u].err \in {"DoubleBooked", "AlreadyAssigned", "ok"})
       => \A t \in Threads \ {u} :
            thr[t].pc = "add" => thr[t].added \notin {1, 2}]_vars

\* C30 (as claimed): every date create_match stores is a plain calendar
\* date, so two stored matches of the same calendar day have equal date
\* values.
C30_PlainCalendarDates ==
  /\ \A m \in DOMAIN matches : matches[m].date = CalendarDay(matches[m].date)
  /\ \A m \in DOMAIN matches : \A k \in DOMAIN matches :
       CalendarDay(matches[m].date) = CalendarDay(matches[k].date)
       => matches[m].date = matches[k].date

\* the responses of reassign that report a failed validation
ReassignValidationErrors ==
  {"RefereeNotFound", "MainRoleMismatch", "AssistantRoleMismatch",
   "DuplicateReferee", "DoubleBooked"}

\* C31: a reassign request that fails validation (unknown referee, wrong
\* role, duplicate referee, referee booked on another match of the date)
\* leaves the rows of the match, and every other row, as they were before the
\* request.
C31_FailedReassignKeepsRows ==
  [][(last'.op = "reassign" /\ last'.err \in ReassignValidationErrors)
     => assignments' = assignments]_vars

\* C31 witness: match 2 has its three rows, match 1 of the same date is
\* staffed too, and a reassign of match 2 was rejected because a referee is
\* booked on match 1.
C31_Witness ==
  /\ last.op = "reassign" /\ last.err = "DoubleBooked"
  /\ Cardinality(get_assignments_by_match(2)) = 3
  /\ Cardinality(get_assignments_by_match(1)) = 3

\* the conditions of the claim for the request assign(m, c[1], c[2], c[3])
AssignConditions(m, c) ==
  /\ m \in DOMAIN matches
  /\ {c[1], c[2], c[3]} \subseteq DOMAIN referees
  /\ referees[c[1]].role = "Referee"
  /\ referees[c[2]].role = "Assistant Referee"
  /\ referees[c[3]].role = "Assistant Referee"
  /\ c[1] # c[2] /\ c[1] # c[3] /\ c[2] # c[3]
  /\ {c[1], c[2], c[3]} \subseteq get_available_referees(matches[m].date)
  /\ ~\E a \in DOMAIN assignments : assignments[a].match_id = m

\* C32: assign_referees_to_match succeeds (and stores three rows for the
\* match) if and only if the match exists, the three referees exist, the main
\* referee is a "Referee" and the assistants are "Assistant Referee", the
\* three ids are pairwise distinct, each of the three is in
\* get_available_referees(date of the match), and the match has no
\* assignment.
C32_AssignSucceedsIff ==
  [][last'.op = "assign" =>
       \A m \in MatchIdInputs, c \in CrewInputs :
         Assign(m, c[1], c[2], c[3])
         => /\ last'.err = "ok" <=> AssignConditions(m, c)
            /\ last'.err = "ok"
               => Cardinality({a \in DOMAIN assignments' :
                                 assignments'[a].match_id = m}) = 3
            /\ last'.err # "ok" => assignments' = assignments]_vars

\* C32 witness: an assign succeeded on the third match, whose officials are
\* also booked on a match of another date, while both matches of the other
\* date are staffed.
C32_Witness ==
  /\ last.op = "assign" /\ last.err = "ok"
  /\ \A m \in {1, 2, 3} : Cardinality(get_assignments_by_match(m)) = 3
  /\ \A a \in get_assignments_by_match(3) :
       \A b \in DOMAIN assignments \ get_assignments_by_match(3) : a > b

\* match A holds exactly three rows, for the crew c in its positions, and no
\* referee of c holds a row on another stored match of the date of A
StaffedOnlyBy(A, c) ==
  /\ A \in DOMAIN matches
  /\ Cardinality(get_assignments_by_match(A)) = 3
  /\ OfficialsOf(assignments, A)
       = {<<c[1], "Referee">>, <<c[2], "Assistant Referee">>,
          <<c[3], "Assistant Referee">>}
  /\ ~BookedElsewhere(A, {c[1], c[2], c[3]})

\* C33: when match A of date D is staffed by R, A1, A2 and they hold no other
\* assignment on D, then after delete_match(A) the three are in
\* get_available_referees(D), and assign(B, R, A1, A2) passes every check for
\* each other match B of date D that has no assignment.
C33_DeleteMatchReleasesOfficials ==
  [][last'.op = "delete_match" =>
       \A A \in MatchIdInputs, c \in CrewInputs, D \in LookupDates :
         (/\ StaffedOnlyBy(A, c)
          /\ matches[A].date = D
          /\ DeleteMatch(A))
         => /\ {c[1], c[2], c[3]} \subseteq get_available_referees(D)'
            /\ \A B \in MatchIdInputs :
                 (/\ B \in DOMAIN matches'
                  /\ matches'[B].date = D
                  /\ get_assignments_by_match(B)' = {})
                 => AssignCheck(B, c[1], c[2], c[3])' = "ok"]_vars

\* C33 witness: match 1 was deleted while staffed, match 2 of the same date
\* is stored without rows, and match 3 of another date is staffed.
C33_Witness ==
  /\ last.op = "delete_match" /\ last.err = "ok"
  /\ 1 \notin DOMAIN matches /\ 2 \in DOMAIN matches
  /\ get_assignments_by_match(2) = {}
  /\ Cardinality(get_assignments_by_match(3)) = 3
  /\ assignment_counter > 6

\* C34: while a match holds one or two rows (what delete_referee leaves of a
\* staffed match), every assign on it is rejected and changes nothing; and a
\* row disappears only when delete_referee deletes its referee or
\* delete_match deletes its match, so the match becomes assignable again only
\* by deleting its other officials or the match itself.
C34_PartialMatchStaysBlocked ==
  [][/\ last'.op = "assign" =>
          \A m \in MatchIdInputs, c \in LookupCrews :
            (/\ Cardinality(get_assignments_by_match(m)) \in {1, 2}
             /\ Assign(m, c[1], c[2], c[3]))
            => (last'.err # "ok" /\ UNCHANGED db)
     /\ \A a \in DOMAIN assignments \ DOMAIN assignments' :
          \/ /\ last'.op = "delete_referee"
             /\ assignments[a].referee_id \notin DOMAIN referees'
          \/ /\ last'.op = "delete_match"
             /\ assignments[a].match_id \notin DOMAIN matches'
     /\ \A a \in DOMAIN assignments \cap DOMAIN assignments' :
          assignments'[a] = assignments[a]]_vars

\* C34 witness: the only rows stored are the two that delete_referee left of
\* a staffed match, and an assign of three free officials was rejected
\* because the match has assignments.
C34_Witness ==
  /\ last.op = "assign" /\ last.err = "AlreadyAssigned"
  /\ Cardinality(DOMAIN assignments) = 2
  /\ Cardinality(DOMAIN referees) = 5

\* C35: in every reachable state each assignment row references a stored
\* referee whose role is the role stored in the row.
C35_RowRoleIsRefereeRole ==
  \A a \in DOMAIN assignments :
    /\ assignments[a].referee_id \in DOMAIN referees
    /\ referees[assignments[a].referee_id].role = assignments[a].role

\* C35 witness: an official was deleted, one match keeps the two rows of its
\* other officials and another match holds its three rows.
C35_Witness ==
  /\ Cardinality(DOMAIN referees) = 5
  /\ \E m \in DOMAIN matches : Cardinality(get_assignments_by_match(m)) = 2
  /\ \E m \in DOMAIN matches : Cardinality(get_assignments_by_match(m)) = 3
\* C36: no call of the services removes a team, so every stored league holds
\* exactly team_count teams, and add_team_to_league on a stored league is
\* refused with LeagueFull whatever the team name (new, already used in the
\* league, or blank).
C36_CreatedLeagueStaysFull ==
  \A l \in DOMAIN leagues :
    /\ Cardinality(get_teams_by_league(l)) = leagues[l].team_count
    /\ \A n \in TeamNameInputs : AddTeamCheck(l, n) = "LeagueFull"

\* C36 witness: add_team_to_league was refused with LeagueFull on a
\* repository with a stored league.
C36_Witness ==
  /\ last.op = "add_team_to_league" /\ last.err = "LeagueFull"
  /\ DOMAIN leagues # {}

\* the rows stored after the assign handler of app.py answered the request
\* on the stored rows
WebRowsAfter(m, c) ==
  IF WebAssignCheck(m, c[1], c[2], c[3]) = "ok"
  THEN WebNewRows(assignments, m, c[1], c[2], c[3]) @@ assignments
  ELSE assignments

\* C37: on the same stored data and the same request, the assign handler of
\* app.py accepts exactly when AssignmentService.assign_referees_to_match
\* does; when both accept, each stores three new rows with the same
\* (match, referee, role), and when both reject, neither stores a row.
C37_WebAndServiceAcceptTheSame ==
  [][last'.op = "assign" =>
       \A m \in MatchIdInputs, c \in CrewInputs :
         (AssignCheck(m, c[1], c[2], c[3]) = last'.err
          /\ Assign(m, c[1], c[2], c[3]))
         => LET web == WebRowsAfter(m, c)
            IN /\ (web # assignments) <=> (last'.err = "ok")
               /\ (assignments' # assignments) <=> (last'.err = "ok")
               /\ OfficialsOf(web, m) = OfficialsOf(assignments', m)
               /\ Cardinality(DOMAIN web) = Cardinality(DOMAIN assignments')
               /\ Cardinality(DOMAIN assignments')
                    = Cardinality(DOMAIN assignments)
                      + (IF last'.err = "ok" THEN 3 ELSE 0)]_vars

\* C37 witness: the service accepted a crew for a match while the rows of
\* another match were stored, so the availability queries of both had rows
\* to look at.
C37_Witness ==
  /\ last.op = "assign" /\ last.err = "ok"
  /\ \E a \in DOMAIN assignments, b \in DOMAIN assignments :
       assignments[a].match_id # assignments[b].match_id

====
